---- MODULE Spec2Model ----
(***************************************************************************)
(* Model of the agent's generation / tool-dispatch loop                    *)
(* (src/__init__.py), of the streamed tool-call accumulator                *)
(* (src/agent/_tool_chunks_container.py) and of the message log            *)
(* (src/message.py).                                                       *)
(*                                                                         *)
(* Text is a sequence of one-character strings, so that concatenation,     *)
(* prefixes and the JSON reading of an arguments text are computed.        *)
(* Python's None is the string "None" where the field is otherwise a       *)
(* string, and a has_... flag where the field is otherwise a text.         *)
(***************************************************************************)
EXTENDS Integers, Sequences, FiniteSets, TLC

\* ------------------------------------------------------------------ bounds

\* Fragments the streams of one generate() call may deliver, over all its
\* rounds: each chunk with content and each tool-call delta is one.
MaxFragments == 3

\* The largest index a tool-call delta carries.
MaxIndex == 1

\* The longest log MessagesContainer.drop is applied to, and the largest k
\* and skip it is called with.
MaxLogLen == 3

\* ------------------------------------------------------------- input sets

\* Text fragments a chunk's delta.content may carry ("" included).
ContentFragments == {<<>>, <<"H">>, <<"i">>}

\* Fragments of a tool-call delta; <<>> stands for None and for "", which
\* append_delta treats alike.
IdFragments == {<<>>, <<"a">>}

NameFragments == {<<>>, <<"f">>}

ArgumentsFragments == {<<>>, <<"{">>, <<"}">>, <<"1">>, <<"{", "}">>}

\* ChoiceDeltaToolCall: index, id, function (None, or name and arguments).
Deltas ==
    { [index |-> i, id |-> c, has_function |-> FALSE, name |-> <<>>, arguments |-> <<>>] :
        i \in 0..MaxIndex, c \in IdFragments }
    \cup
    { [index |-> i, id |-> c, has_function |-> TRUE, name |-> n, arguments |-> a] :
        i \in 0..MaxIndex, c \in IdFragments, n \in NameFragments, a \in ArgumentsFragments }

\* What a registered callable does when it is invoked.
Funcs == {"returns", "raises"}

\* The abilities a caller may register.
Abilities == { [name |-> <<"f">>, func |-> f] : f \in Funcs }

\* --------------------------------------------------------------- messages

Message(role, content, name) ==
    [role |-> role, content |-> content, name |-> name,
     tool_calls |-> <<>>, call_id |-> <<>>]

SystemMessage(content) == Message("system", content, "None")

UserMessage(content) == Message("user", content, "None")

AssistantMessage(content, name, tool_calls) ==
    [Message("assistant", content, name) EXCEPT !.tool_calls = tool_calls]

ToolMessage(call_id, content) ==
    [Message("tool", content, "None") EXCEPT !.call_id = call_id]

\* add putting the message in front of the list.
add_front(log, message) == <<message>> \o log

\* MessagesContainer.add with one Message.
add(log, message) == Append(log, message)

\* MessagesContainer.drop: self.messages = self.messages[skip: skip + k], a
\* Python slice (its ends are clamped to the length of the list).
drop(log, k, skip) ==
    LET lo == IF skip < Len(log) THEN skip ELSE Len(log)
        hi == IF skip + k < Len(log) THEN skip + k ELSE Len(log)
    IN  SubSeq(log, lo + 1, hi)

\* as_chat_message of each message: the wire form. An assistant message with
\* tool calls carries them; every message carries role and content; a tool
\* message carries tool_call_id.
as_chat_message(m) ==
    [role |-> m.role, content |-> m.content, name |-> m.name,
     tool_calls |-> m.tool_calls,
     tool_call_id |-> m.call_id]

as_chat_messages(log) == [i \in 1..Len(log) |-> as_chat_message(log[i])]

\* ------------------------------------------------------------ accumulator

\* A ToolFunctionCallBuilder as constructed: the class attributes.
NewBuilder == [call_id |-> <<>>, name |-> <<>>, arguments |-> <<>>]

\* ToolFunctionCallBuilder.append_delta.
append_delta(builder, delta) ==
    [call_id   |-> IF delta.id # <<>> THEN builder.call_id \o delta.id ELSE builder.call_id,
     name      |-> IF delta.has_function /\ delta.name # <<>>
                   THEN builder.name \o delta.name ELSE builder.name,
     arguments |-> IF delta.has_function /\ delta.arguments # <<>>
                   THEN builder.arguments \o delta.arguments ELSE builder.arguments]

\* _request_builders returning the last builder (self.builders[-1]) instead
\* of the one at call.index.
request_builders_last(bs, call) ==
    LET grown == IF Len(bs) <= call.index THEN Append(bs, NewBuilder) ELSE bs
    IN  [builders |-> grown,
         raised   |-> ~(call.index < Len(grown)),
         position |-> Len(grown)]

\* ToolChunksContainer._request_builders: at most one builder is appended,
\* then the list is subscripted with call.index (0-based; position index + 1
\* here). raised: the subscript is out of range (IndexError).
_request_builders(bs, call) ==
    LET grown == IF Len(bs) <= call.index THEN Append(bs, NewBuilder) ELSE bs
    IN  [builders |-> grown,
         raised   |-> ~(call.index < Len(grown)),
         position |-> call.index + 1]

\* The body of the loop of ToolChunksContainer.collect_tool_calls, for one call.
collect_tool_call(bs, call) ==
    LET r == _request_builders(bs, call)
    IN  IF r.raised
        THEN [builders |-> r.builders, raised |-> TRUE]
        ELSE [builders |-> [r.builders EXCEPT
                               ![r.position] = append_delta(r.builders[r.position], call)],
              raised   |-> FALSE]

\* ToolFunctionCallBuilder.build.
build(builder) ==
    [call_id |-> builder.call_id, name |-> builder.name, arguments |-> builder.arguments]

\* build_tool_calls running over reversed(self.builders).
build_tool_calls_reversed(bs) == [i \in 1..Len(bs) |-> build(bs[Len(bs) + 1 - i])]

\* ToolChunksContainer.build_tool_calls.
build_tool_calls(bs) == [i \in 1..Len(bs) |-> build(bs[i])]

\* ToolFunctionCall.generate_tool_call.
generate_tool_call(call) ==
    [id |-> call.call_id, type |-> "function",
     function |-> [name |-> call.name, arguments |-> call.arguments]]

\* ToolChunksContainer.generate_assistant_message.
generate_assistant_message(cs) ==
    AssistantMessage(<<>>, "None", [i \in 1..Len(cs) |-> generate_tool_call(cs[i])])

\* json.loads on a text over the characters { } 1: "{}" is the empty object,
\* a run of 1s is a number, and anything else (the empty text included) is
\* not JSON (JSONDecodeError).
json_loads(text) ==
    IF text = <<"{", "}">> THEN [raised |-> FALSE, kind |-> "object"]
    ELSE IF text # <<>> /\ \A i \in 1..Len(text) : text[i] = "1"
         THEN [raised |-> FALSE, kind |-> "number"]
         ELSE [raised |-> TRUE, kind |-> "None"]

\* Evaluating `**call.args` at the call site of _execute_ability:
\* ToolFunctionCall.args is json.loads of the arguments text, and ** of
\* something that is not a mapping is a TypeError.
unpack_args(call) ==
    LET v == json_loads(call.arguments)
    IN  IF v.raised THEN "JSONDecodeError"
        ELSE IF v.kind # "object" THEN "TypeError"
        ELSE "None"

\* ------------------------------------------------------------------ agent

Instructions == <<"S">>

Question == <<"Q">>

UnknownPrefix ==
    <<"U", "n", "k", "n", "o", "w", "n", " ", "a", "b", "i", "l", "i", "t", "y", ":", " ">>

ErrorPrefix == <<"E", "r", "r", "o", "r", ":", " ">>

\* What the "returns" callable returns, and str(e) of what "raises" raises.
ReturnText == <<"o", "k">>

ExceptionText == <<"b", "o", "o", "m">>

\* Position of `name` in the registry (a dict, in insertion order); 0: absent.
Registered(abs, name) ==
    IF \E i \in 1..Len(abs) : abs[i].name = name
    THEN CHOOSE i \in 1..Len(abs) : abs[i].name = name
    ELSE 0

\* add_abilities keeping a list of abilities: an ability registered under a
\* name that is already registered is added beside the first.
add_abilities_appending(abs, ability) == Append(abs, ability)

\* Agent.add_abilities with one ability: self._abilities[ability.name] = ability.
add_abilities(abs, ability) ==
    LET i == Registered(abs, ability.name)
    IN  IF i = 0 THEN Append(abs, ability) ELSE [abs EXCEPT ![i] = ability]

\* Ability.__call__ with the keyword arguments of {}.
call_ability(ability) ==
    IF ability.func = "raises"
    THEN [raised |-> TRUE, value |-> ExceptionText]
    ELSE [raised |-> FALSE, value |-> ReturnText]

\* _execute_ability without its try/except: what the callable raises propagates.
execute_ability_uncaught(abs, name) ==
    LET i == Registered(abs, name)
    IN  IF i = 0
        THEN [raised |-> FALSE, value |-> UnknownPrefix \o name]
        ELSE call_ability(abs[i])

\* Agent._execute_ability.
_execute_ability(abs, name) ==
    LET i == Registered(abs, name)
    IN  IF i = 0
        THEN [raised |-> FALSE, value |-> UnknownPrefix \o name]
        ELSE LET r == call_ability(abs[i])
             IN  IF r.raised
                 THEN [raised |-> FALSE, value |-> ErrorPrefix \o r.value]
                 ELSE [raised |-> FALSE, value |-> r.value]

\* Ability.to_json of an ability without arguments.
to_json(ability) ==
    [type |-> "function",
     function |-> [name |-> ability.name,
                   parameters |-> [type |-> "object", properties |-> {}, required |-> <<>>]]]

\* The arguments of chat.completions.create in Agent.generate.
completion_request(log, abs) ==
    [sent |-> TRUE,
     messages |-> as_chat_messages(log),
     has_tools |-> Len(abs) > 0,
     tools |-> IF Len(abs) > 0 THEN [i \in 1..Len(abs) |-> to_json(abs[i])] ELSE <<>>]

NoRequest == [sent |-> FALSE, messages |-> <<>>, has_tools |-> FALSE, tools |-> <<>>]

\* `if delta.content: yield delta.content`: an empty fragment is not yielded.
Yields_truthy(c) == IF c.has_content /\ c.content # <<>> THEN <<c.content>> ELSE <<>>

\* `if delta.content is not None: yield delta.content`.
Yields(c) == IF c.has_content THEN <<c.content>> ELSE <<>>

\* after_stream without the message that announces the calls.
after_stream_unannounced(log, text, cs) ==
    IF text # <<>> THEN add(log, AssistantMessage(text, "None", <<>>)) ELSE log

\* after_stream with `elif container.has_calls`: a round that received text
\* does not announce its calls.
after_stream_exclusive(log, text, cs) ==
    IF text # <<>> THEN add(log, AssistantMessage(text, "None", <<>>))
    ELSE IF Len(cs) > 0 THEN add(log, generate_assistant_message(cs)) ELSE log

\* The log after the stream is exhausted: the assistant text message when
\* text was received, then the message announcing the calls when there are
\* calls.
after_stream(log, text, cs) ==
    LET log1 == IF text # <<>> THEN add(log, AssistantMessage(text, "None", <<>>)) ELSE log
    IN  IF Len(cs) > 0 THEN add(log1, generate_assistant_message(cs)) ELSE log1

\* The calls after the stream is exhausted: built when builders exist.
calls_after_stream(bs, cs) == IF Len(bs) > 0 THEN build_tool_calls(bs) ELSE cs

\* ------------------------------------------------------------------ state

VARIABLES
    pc,                  \* where the caller / the generator stands
    messages,            \* Agent.messages.messages: the conversation log
    abilities,           \* Agent._abilities, in insertion order
    request,             \* the last completion request sent
    builders,            \* container.builders of the round
    calls,               \* container.calls of the round
    assistant_response,  \* the accumulated text of the round
    chunk,               \* the chunk being processed
    di,                  \* position in `for call in container.calls`
    yielded,             \* every fragment yielded to the caller, in order
    failure,             \* the exception that ended generate(), or "None"
    texts,               \* history: the content fragments the round's stream delivered
    fed,                 \* history: per index, the fragments the round's stream addressed to it
    outBase,             \* history: Len(yielded) when the round's request was sent
    nfragments,          \* history: fragments delivered so far, over all rounds
    dropped              \* history: the last MessagesContainer.drop call

vars ==
    <<pc, messages, abilities, request, builders, calls, assistant_response, chunk, di,
      yielded, failure, texts, fed, outBase, nfragments, dropped>>

NoChunk == [has_content |-> FALSE, content |-> <<>>, has_tool_calls |-> FALSE]

NothingFed == [i \in {} |-> NewBuilder]

NoDrop == [called |-> FALSE, k |-> 0, skip |-> 0, before |-> <<>>]

\* History of the fragments addressed to an index: their concatenation, in
\* arrival order, keyed by the index itself.
Feed(f, delta) ==
    LET old == IF delta.index \in DOMAIN f THEN f[delta.index] ELSE NewBuilder
        new == [call_id   |-> old.call_id \o delta.id,
                name      |-> old.name \o delta.name,
                arguments |-> old.arguments \o delta.arguments]
    IN  [i \in DOMAIN f \cup {delta.index} |-> IF i = delta.index THEN new ELSE f[i]]

\* Agent.__init__(instructions, messages=MessagesContainer([UserMessage(...)])),
\* with the default name.
Init ==
    /\ pc = "Idle"
    /\ messages = add(<<SystemMessage(Instructions)>>, UserMessage(Question))
    /\ abilities = <<>>
    /\ request = NoRequest
    /\ builders = <<>>
    /\ calls = <<>>
    /\ assistant_response = <<>>
    /\ chunk = NoChunk
    /\ di = 0
    /\ yielded = <<>>
    /\ failure = "None"
    /\ texts = <<>>
    /\ fed = NothingFed
    /\ outBase = 0
    /\ nfragments = 0
    /\ dropped = NoDrop

\* Agent.add_abilities(ability), before generate().
AddAbilities(ability) ==
    /\ pc = "Idle"
    /\ abilities' = add_abilities(abilities, ability)
    /\ UNCHANGED <<pc, messages, request, builders, calls, assistant_response, chunk, di,
                   yielded, failure, texts, fed, outBase, nfragments, dropped>>

\* generate() with _stream_chunks going on with the container of the previous
\* round instead of a new one.
Generate_reusing ==
    /\ pc \in {"Idle", "Sending"}
    /\ request' = completion_request(messages, abilities)
    /\ assistant_response' = <<>>
    /\ texts' = <<>>
    /\ fed' = NothingFed
    /\ outBase' = Len(yielded)
    /\ pc' = "Streaming"
    /\ UNCHANGED <<messages, abilities, builders, calls, chunk, di, yielded, failure,
                   nfragments, dropped>>

\* Agent.generate up to the first `for chunk in stream`: the request is sent
\* and _stream_chunks starts with a new container and no text. Called by the
\* user (Idle) or by _stream_chunks itself after a dispatching round (Sending).
Generate ==
    /\ pc \in {"Idle", "Sending"}
    /\ request' = completion_request(messages, abilities)
    /\ builders' = <<>>
    /\ calls' = <<>>
    /\ assistant_response' = <<>>
    /\ texts' = <<>>
    /\ fed' = NothingFed
    /\ outBase' = Len(yielded)
    /\ pc' = "Streaming"
    /\ UNCHANGED <<messages, abilities, chunk, di, yielded, failure, nfragments, dropped>>

\* The stream delivers a chunk: delta.content is yielded when it is not None
\* (the generator is then suspended at the yield), else the tool calls of the
\* chunk, if any, are collected.
NextChunk(c) ==
    /\ pc = "Streaming"
    /\ c.has_content => nfragments < MaxFragments
    /\ nfragments' = IF c.has_content THEN nfragments + 1 ELSE nfragments
    /\ chunk' = IF Yields(c) # <<>> \/ c.has_tool_calls THEN c ELSE NoChunk
    /\ yielded' = yielded \o Yields(c)
    /\ texts' = IF c.has_content THEN Append(texts, c.content) ELSE texts
    /\ pc' = IF Yields(c) # <<>> THEN "Yielded"
             ELSE IF c.has_tool_calls THEN "Collecting" ELSE "Streaming"
    /\ UNCHANGED <<messages, abilities, request, builders, calls, assistant_response, di,
                   failure, fed, outBase, dropped>>

\* The generator resuming after the yield and logging the text accumulated so
\* far as an assistant message at once.
Resume_logging ==
    /\ pc = "Yielded"
    /\ assistant_response' = assistant_response \o chunk.content
    /\ messages' = add(messages, AssistantMessage(assistant_response', "None", <<>>))
    /\ pc' = IF chunk.has_tool_calls THEN "Collecting" ELSE "Streaming"
    /\ chunk' = IF chunk.has_tool_calls THEN chunk ELSE NoChunk
    /\ UNCHANGED <<abilities, request, builders, calls, di, yielded,
                   failure, texts, fed, outBase, nfragments, dropped>>

\* The caller asks for the next fragment: the generator resumes after the
\* yield and appends the content to the accumulated text.
Resume ==
    /\ pc = "Yielded"
    /\ assistant_response' = assistant_response \o chunk.content
    /\ pc' = IF chunk.has_tool_calls THEN "Collecting" ELSE "Streaming"
    /\ chunk' = IF chunk.has_tool_calls THEN chunk ELSE NoChunk
    /\ UNCHANGED <<messages, abilities, request, builders, calls, di, yielded,
                   failure, texts, fed, outBase, nfragments, dropped>>

\* The caller stops iterating: the generator is never resumed.
Abandon ==
    /\ pc = "Yielded"
    /\ pc' = "Abandoned"
    /\ UNCHANGED <<messages, abilities, request, builders, calls, assistant_response, chunk,
                   di, yielded, failure, texts, fed, outBase, nfragments, dropped>>

\* One iteration of `for call in tool_calls` in collect_tool_calls, on the next
\* tool call of the chunk. An IndexError propagates out of generate().
Collect(delta) ==
    /\ pc = "Collecting"
    /\ nfragments < MaxFragments
    /\ nfragments' = nfragments + 1
    /\ fed' = Feed(fed, delta)
    /\ LET r == collect_tool_call(builders, delta)
       IN  /\ builders' = r.builders
           /\ pc' = IF r.raised THEN "Failed" ELSE "Collecting"
           /\ failure' = IF r.raised THEN "IndexError" ELSE failure
    /\ UNCHANGED <<messages, abilities, request, calls, assistant_response, chunk, di,
                   yielded, texts, outBase, dropped>>

\* The chunk has no further tool call.
EndCollect ==
    /\ pc = "Collecting"
    /\ pc' = "Streaming"
    /\ chunk' = NoChunk
    /\ UNCHANGED <<messages, abilities, request, builders, calls, assistant_response,
                   di, yielded, failure, texts, fed, outBase, nfragments, dropped>>

\* The remote stream raises: nothing in generate() catches it.
StreamFails ==
    /\ pc = "Streaming"
    /\ pc' = "Failed"
    /\ failure' = "APIError"
    /\ UNCHANGED <<messages, abilities, request, builders, calls, assistant_response, chunk,
                   di, yielded, texts, fed, outBase, nfragments, dropped>>

\* The stream is exhausted: the code after the loop, up to the first
\* iteration of `for call in container.calls`.
StreamExhausted ==
    /\ pc = "Streaming"
    /\ calls' = calls_after_stream(builders, calls)
    /\ messages' = after_stream(messages, assistant_response, calls')
    /\ pc' = IF Len(calls') > 0 THEN "Dispatching" ELSE "Done"
    /\ di' = IF Len(calls') > 0 THEN 1 ELSE di
    /\ UNCHANGED <<abilities, request, builders, assistant_response, chunk, yielded, failure,
                   texts, fed, outBase, nfragments, dropped>>

\* The loop running over reversed(container.calls).
current_call_reversed(cs, k) == cs[Len(cs) + 1 - k]

\* The call the loop over container.calls is at.
current_call(cs, k) == cs[k]

\* One iteration of `for call in container.calls`: `**call.args` is evaluated,
\* then _execute_ability runs and its result is appended as a ToolMessage.
\* After the last call, `yield from self.generate()` is next.
DispatchCall ==
    /\ pc = "Dispatching"
    /\ LET call == current_call(calls, di)
           unpacked == unpack_args(call)
           r == _execute_ability(abilities, call.name)
       IN  IF unpacked # "None"
           THEN /\ pc' = "Failed"
                /\ failure' = unpacked
                /\ UNCHANGED <<messages, di>>
           ELSE IF r.raised
           THEN /\ pc' = "Failed"
                /\ failure' = "Exception"
                /\ UNCHANGED <<messages, di>>
           ELSE /\ messages' = add(messages, ToolMessage(call.call_id, r.value))
                /\ di' = di + 1
                /\ pc' = IF di = Len(calls) THEN "Sending" ELSE "Dispatching"
                /\ UNCHANGED failure
    /\ UNCHANGED <<abilities, request, builders, calls, assistant_response, chunk, yielded,
                   texts, fed, outBase, nfragments, dropped>>

Chunks ==
    { [has_content |-> FALSE, content |-> <<>>, has_tool_calls |-> t] : t \in BOOLEAN }
    \cup
    { [has_content |-> TRUE, content |-> s, has_tool_calls |-> t] :
        s \in ContentFragments, t \in BOOLEAN }

Next ==
    \/ \E a \in Abilities : AddAbilities(a)
    \/ Generate
    \/ \E c \in Chunks : NextChunk(c)
    \/ Resume
    \/ Abandon
    \/ \E d \in Deltas : Collect(d)
    \/ EndCollect
    \/ StreamFails
    \/ StreamExhausted
    \/ DispatchCall

Spec == Init /\ [][Next]_vars

\* ------------------------------------------ the accumulator used directly

\* ToolChunksContainer(): a container used through its own methods.
InitContainer ==
    /\ pc = "Container"
    /\ messages = <<>>
    /\ abilities = <<>>
    /\ request = NoRequest
    /\ builders = <<>>
    /\ calls = <<>>
    /\ assistant_response = <<>>
    /\ chunk = NoChunk
    /\ di = 0
    /\ yielded = <<>>
    /\ failure = "None"
    /\ texts = <<>>
    /\ fed = NothingFed
    /\ outBase = 0
    /\ nfragments = 0
    /\ dropped = NoDrop

\* container.collect_tool_calls(delta).
ContainerCollect(delta) ==
    /\ pc \in {"Container", "Built", "Rebuilt"}
    /\ nfragments < MaxFragments
    /\ nfragments' = nfragments + 1
    /\ fed' = Feed(fed, delta)
    /\ LET r == collect_tool_call(builders, delta)
       IN  /\ builders' = r.builders
           /\ pc' = IF r.raised THEN "Failed" ELSE "Container"
           /\ failure' = IF r.raised THEN "IndexError" ELSE failure
    /\ UNCHANGED <<messages, abilities, request, calls, assistant_response, chunk, di,
                   yielded, texts, outBase, dropped>>

\* container.build_tool_calls(); Rebuilt: no delta was collected since the
\* previous build_tool_calls().
ContainerBuild ==
    /\ pc \in {"Container", "Built", "Rebuilt"}
    /\ calls' = build_tool_calls(builders)
    /\ pc' = IF pc = "Container" THEN "Built" ELSE "Rebuilt"
    /\ UNCHANGED <<messages, abilities, request, builders, assistant_response, chunk, di,
                   yielded, failure, texts, fed, outBase, nfragments, dropped>>

NextContainer ==
    \/ \E d \in Deltas : ContainerCollect(d)
    \/ ContainerBuild

SpecContainer == InitContainer /\ [][NextContainer]_vars

\* ---------------------------------------------- the log used directly

\* Messages a caller adds to a MessagesContainer.
LogMessages ==
    {UserMessage(<<"A">>), UserMessage(<<"B">>), AssistantMessage(<<"C">>, "None", <<>>)}

\* MessagesContainer([]).
InitLog ==
    /\ pc = "Log"
    /\ messages = <<>>
    /\ abilities = <<>>
    /\ request = NoRequest
    /\ builders = <<>>
    /\ calls = <<>>
    /\ assistant_response = <<>>
    /\ chunk = NoChunk
    /\ di = 0
    /\ yielded = <<>>
    /\ failure = "None"
    /\ texts = <<>>
    /\ fed = NothingFed
    /\ outBase = 0
    /\ nfragments = 0
    /\ dropped = NoDrop

\* container.add(message).
LogAdd(message) ==
    /\ pc \in {"Log", "Dropped"}
    /\ Len(messages) < MaxLogLen
    /\ messages' = add(messages, message)
    /\ pc' = "Log"
    /\ dropped' = NoDrop
    /\ UNCHANGED <<abilities, request, builders, calls, assistant_response, chunk, di,
                   yielded, failure, texts, fed, outBase, nfragments>>

\* container.drop(k, skip).
LogDrop(k, skip) ==
    /\ pc \in {"Log", "Dropped"}
    /\ messages' = drop(messages, k, skip)
    /\ dropped' = [called |-> TRUE, k |-> k, skip |-> skip, before |-> messages]
    /\ pc' = "Dropped"
    /\ UNCHANGED <<abilities, request, builders, calls, assistant_response, chunk, di,
                   yielded, failure, texts, fed, outBase, nfragments>>

NextLog ==
    \/ \E m \in LogMessages : LogAdd(m)
    \/ \E k \in 0..MaxLogLen, skip \in 0..MaxLogLen : LogDrop(k, skip)

SpecLog == InitLog /\ [][NextLog]_vars

\* ----------------------------------------------------------------- helpers

StartsWith(s, p) == Len(s) >= Len(p) /\ SubSeq(s, 1, Len(p)) = p

RECURSIVE Flatten(_)
Flatten(ss) == IF ss = <<>> THEN <<>> ELSE Head(ss) \o Flatten(Tail(ss))

\* The messages the current round has appended to the log it sent.
Appended == SubSeq(messages, Len(request.messages) + 1, Len(messages))

IsText(m) == m.role = "assistant" /\ m.tool_calls = <<>>

IsAnnouncement(m) == m.role = "assistant" /\ m.tool_calls # <<>>

\* The round's stream was exhausted and its calls, if any, were finalized.
PastStream ==
    \/ pc \in {"Dispatching", "Sending", "Done"}
    \/ pc = "Failed" /\ failure \in {"JSONDecodeError", "TypeError", "Exception"}

\* The step appends exactly the tool-result message of the call at di, with
\* `content`, and goes on to the next call or to the next request.
ResultAppended(content) ==
    /\ messages' = Append(messages, ToolMessage(calls[di].call_id, content))
    /\ di' = di + 1
    /\ pc' = IF di = Len(calls) THEN "Sending" ELSE "Dispatching"
    /\ failure' = "None"

\* ------------------------------------------------------------------ claims

\* C1: a tool-call delta whose index has not been seen gets a builder of its
\* own, whatever the index: collecting never fails with an IndexError, and
\* the builder addressed by every index that was fed holds exactly the
\* fragments addressed to it.
C1_EveryNewIndexGetsItsBuilder ==
    /\ failure # "IndexError"
    /\ pc \in {"Streaming", "Yielded", "Collecting"} =>
         \A i \in DOMAIN fed : i < Len(builders) /\ builders[i + 1] = fed[i]

\* C2: dispatching a call that names a registered ability and whose
\* arguments text is not a JSON object does not raise: a tool-result message
\* whose content starts with "Error: " is appended for the call and the
\* loop goes on.
C2_UnparsableArgumentsBecomeErrorText ==
    [][ (/\ pc = "Dispatching"
         /\ Registered(abilities, calls[di].name) # 0
         /\ unpack_args(calls[di]) # "None")
        => /\ ResultAppended(messages'[Len(messages')].content)
           /\ StartsWith(messages'[Len(messages')].content, ErrorPrefix) ]_vars

\* C3: in a round with several finalized calls every call is executed and
\* gets exactly one tool-result message with its call_id, whatever happens to
\* the other calls, and the round then re-enters Sending.
C3_EveryCallOfTheBatchGetsItsResult ==
    [][ (pc = "Dispatching" /\ Len(calls) >= 2)
        => /\ pc' \in {"Dispatching", "Sending"}
           /\ Len(messages') = Len(messages) + 1
           /\ messages'[Len(messages')].role = "tool"
           /\ messages'[Len(messages')].call_id = calls[di].call_id
           /\ SubSeq(messages', 1, Len(messages)) = messages ]_vars

\* C4: dispatching a call whose name is not registered, whatever its
\* arguments text, raises nothing and appends the tool-result message
\* "Unknown ability: <name>" for the call; the loop then goes on to the next
\* call or to Sending.
C4_UnknownNameAlwaysYieldsDiagnostic ==
    [][ (pc = "Dispatching" /\ Registered(abilities, calls[di].name) = 0)
        => ResultAppended(UnknownPrefix \o calls[di].name) ]_vars

\* C5: when the callable of a registered ability raises, nothing propagates
\* out of dispatch: the tool-result message appended for the call has a
\* content starting with "Error: ", and the round goes on to the next call or
\* to Sending.
C5_RaisingCallableBecomesErrorText ==
    [][ (/\ pc = "Dispatching"
         /\ unpack_args(calls[di]) = "None"
         /\ Registered(abilities, calls[di].name) # 0
         /\ abilities[Registered(abilities, calls[di].name)].func = "raises")
        => /\ ResultAppended(messages'[Len(messages')].content)
           /\ StartsWith(messages'[Len(messages')].content, ErrorPrefix) ]_vars

\* A raising callable was dispatched, its result is in the log and the round
\* is at its next call.
C5_Witness ==
    /\ pc = "Dispatching"
    /\ di = 2
    /\ abilities # <<>> /\ abilities[1].func = "raises"
    /\ calls[1].name = <<"f">>
    /\ messages[Len(messages)] = ToolMessage(calls[1].call_id, ErrorPrefix \o ExceptionText)

\* C6: after collecting the deltas of a round and finalizing, the call at
\* each index has the call_id, name and arguments text that concatenate, in
\* arrival order, exactly the fragments addressed to that index, however the
\* text was split and the indices interleaved; while the stream is consumed
\* every builder holds the fragments of its own index only.
C6_CallsConcatenateTheirOwnFragments ==
    /\ pc \in {"Streaming", "Yielded", "Collecting"} =>
         /\ Len(builders) = Cardinality(DOMAIN fed)
         /\ \A i \in DOMAIN fed : i < Len(builders) /\ builders[i + 1] = fed[i]
    /\ PastStream =>
         /\ Len(calls) = Cardinality(DOMAIN fed)
         /\ \A i \in DOMAIN fed : i < Len(calls) /\ calls[i + 1] = fed[i]

\* Two calls were finalized from three deltas, one of them with a name and
\* the arguments text {}.
C6_Witness ==
    /\ pc = "Dispatching"
    /\ Len(calls) = 2
    /\ texts = <<>>
    /\ Len(messages) = Len(request.messages) + 1
    /\ nfragments = 3
    /\ calls[1].arguments = <<"{", "}">>
    /\ calls[1].call_id = <<"a">>
    /\ calls[2].name = <<"f">>

\* The last message before position j that is not a tool result.
Announcer(j) ==
    CHOOSE i \in 1..(j - 1) :
        /\ messages[i].role # "tool"
        /\ \A k \in (i + 1)..(j - 1) : messages[k].role = "tool"

\* C7: every tool-result message of the log is preceded by the assistant
\* message announcing the call with its call_id: the announcing message of
\* its round comes before it, with only tool results of that round between.
C7_AnnouncementPrecedesResults ==
    \A j \in 1..Len(messages) :
        messages[j].role = "tool" =>
            /\ IsAnnouncement(messages[Announcer(j)])
            /\ \E k \in 1..Len(messages[Announcer(j)].tool_calls) :
                   messages[Announcer(j)].tool_calls[k].id = messages[j].call_id

\* The log holds the result of a call with a call_id, second of its round.
C7_Witness ==
    \E j \in 3..Len(messages) :
        /\ messages[j].role = "tool"
        /\ messages[j - 1].role = "tool"
        /\ messages[j].call_id = <<"a">>

\* Position in the log of the round's announcing message.
AnnouncedAt == Len(request.messages) + (IF assistant_response # <<>> THEN 1 ELSE 0) + 1

\* C8: the calls of a round are dispatched in index order, one at a time:
\* when the loop is at call di the log ends with the results of the calls
\* 1..di-1, in that order, right after the announcing message; Sending is
\* re-entered only with the result of the last call appended, so every later
\* request ends with a tool result.
C8_ResultsInIndexOrder ==
    /\ (PastStream /\ Len(calls) > 0) =>
         /\ di \in 1..(Len(calls) + 1)
         /\ pc = "Sending" => di = Len(calls) + 1
         /\ pc = "Dispatching" => di <= Len(calls)
         /\ Len(messages) = AnnouncedAt + di - 1
         /\ \A k \in 1..(di - 1) :
                /\ messages[AnnouncedAt + k].role = "tool"
                /\ messages[AnnouncedAt + k].call_id = calls[k].call_id
    /\ (request.sent /\ Len(request.messages) > 2) =>
         request.messages[Len(request.messages)].role = "tool"

\* Both calls of a round, with different call_ids, have their results in the
\* log and the round is about to send the next request.
C8_Witness ==
    /\ pc = "Sending"
    /\ Len(calls) = 2
    /\ calls[1].call_id # calls[2].call_id
    /\ messages[Len(messages)].call_id = calls[2].call_id
    /\ messages[Len(messages) - 1].call_id = calls[1].call_id

\* C9 (as stated): a round never appends both an assistant text message and
\* a tool-announcing assistant message.
C9_TextAndToolCallsExclusive ==
    request.sent =>
        ~ \E i, j \in 1..Len(Appended) :
              IsText(Appended[i]) /\ IsAnnouncement(Appended[j])

\* C9 (amended): a round appends at most one assistant text message, first,
\* exactly when its stream carried non-empty text, then at most one
\* tool-announcing message, exactly when its stream carried tool-call deltas,
\* then tool results only; a stream with both gets both messages.
C9_TextThenAnnouncement ==
    LET t == IF Flatten(texts) # <<>> THEN 1 ELSE 0
        a == IF DOMAIN fed # {} THEN 1 ELSE 0
    IN  PastStream =>
          /\ Len(Appended) >= t + a
          /\ t = 1 => Appended[1] = AssistantMessage(Flatten(texts), "None", <<>>)
          /\ a = 1 => IsAnnouncement(Appended[t + 1])
          /\ \A k \in (t + a + 1)..Len(Appended) : Appended[k].role = "tool"

\* A round appended its text message and then its announcing message.
C9_Witness ==
    /\ PastStream
    /\ Len(Appended) >= 2
    /\ IsText(Appended[1])
    /\ IsAnnouncement(Appended[2])

\* C10: the fragments yielded in a round are exactly the content fragments
\* of its stream, in order, each yielded when its chunk is consumed; a round
\* without tool-call deltas ends in Done, having appended one assistant
\* message with the concatenated text, or nothing when that text is empty.
C10_TextRound ==
    /\ request.sent => SubSeq(yielded, outBase + 1, Len(yielded)) = texts
    /\ (PastStream /\ DOMAIN fed = {}) =>
         /\ pc = "Done"
         /\ as_chat_messages(SubSeq(messages, 1, Len(request.messages))) = request.messages
         /\ Appended = IF Flatten(texts) = <<>> THEN <<>>
                       ELSE <<AssistantMessage(Flatten(texts), "None", <<>>)>>

\* A round streamed "H" then "i" and no tool-call delta, and is done.
C10_Witness ==
    /\ pc = "Done"
    /\ DOMAIN fed = {}
    /\ texts = << <<"H">>, <<"i">> >>
    /\ yielded = texts
    /\ messages[Len(messages)] = AssistantMessage(<<"H", "i">>, "None", <<>>)

\* C11: the loop reaches Done exactly at the end of the first round that
\* yields no finalized call: once its stream is exhausted, a round with at
\* least one call goes through its calls to another Sending, and a round
\* without calls is Done.
C11_DoneExactlyAfterCallFreeRound ==
    /\ pc = "Done" => calls = <<>>
    /\ (PastStream /\ calls = <<>>) => pc = "Done"
    /\ (PastStream /\ Len(calls) > 0) => pc \in {"Dispatching", "Sending"}

\* C12: every completion request carries the whole log as it is when the
\* request is sent, in order (the log the round then extends); it has no
\* tools field when no ability is registered, and otherwise one schema per
\* registered name, a later registration under a name replacing the earlier.
C12_RequestCarriesLogAndSchemas ==
    request.sent =>
        /\ Len(request.messages) <= Len(messages)
        /\ request.messages = as_chat_messages(SubSeq(messages, 1, Len(request.messages)))
        /\ pc \in {"Streaming", "Yielded", "Collecting"} =>
               Len(request.messages) = Len(messages)
        /\ request.has_tools = (abilities # <<>>)
        /\ ~request.has_tools => request.tools = <<>>
        /\ Len(request.tools) = Cardinality({abilities[i].name : i \in 1..Len(abilities)})
        /\ \A i \in 1..Len(abilities) : request.tools[i] = to_json(abilities[i])

\* A second request was sent, with the schema of the one registered name.
C12_Witness ==
    /\ request.sent
    /\ Len(request.messages) > 2
    /\ pc = "Streaming"
    /\ request.has_tools
    /\ Len(request.tools) = 1
    /\ request.tools[1].function.name = <<"f">>
    /\ abilities[1].func = "raises"

\* C13: build_tool_calls replaces the finalized set with one call per
\* builder, in index order, the i-th call having the fields of the i-th
\* builder; called again with no delta collected in between, it yields the
\* same finalized set and leaves the builders as they were.
C13_BuildIsPerBuilderAndIdempotent ==
    /\ [](pc \in {"Built", "Rebuilt"} =>
            /\ Len(calls) = Len(builders)
            /\ \A i \in 1..Len(builders) :
                   /\ calls[i].call_id = builders[i].call_id
                   /\ calls[i].name = builders[i].name
                   /\ calls[i].arguments = builders[i].arguments)
    /\ [][(pc \in {"Built", "Rebuilt"} /\ pc' = "Rebuilt")
            => (calls' = calls /\ builders' = builders)]_vars

\* build_tool_calls was called twice in a row on two different builders.
C13_Witness ==
    /\ pc = "Rebuilt"
    /\ Len(calls) = 2
    /\ calls[1] # calls[2]
    /\ calls[1].arguments = <<"{", "}">>

\* What the docstring of drop describes: the first `skip` messages stay, the
\* next k are removed, the rest follows.
skip_then_drop(log, k, skip) ==
    LET lo == IF skip < Len(log) THEN skip ELSE Len(log)
        hi == IF skip + k < Len(log) THEN skip + k ELSE Len(log)
    IN  SubSeq(log, 1, lo) \o SubSeq(log, hi + 1, Len(log))

\* C14: drop(k, skip) keeps the first `skip` messages as a prefix, removes
\* the next k messages and keeps the others in their order.
C14_DropSkipsThenDrops ==
    pc = "Dropped" => messages = skip_then_drop(dropped.before, dropped.k, dropped.skip)

\* C15: the accumulator is new in every round: while the round streams it
\* has no finalized call, and no builder before the round's first delta; the
\* calls a round dispatches and announces are built only from the deltas of
\* that round's stream, index by index, so no call of an earlier round is
\* dispatched or announced again.
C15_AccumulatorFreshPerRound ==
    /\ pc \in {"Streaming", "Yielded", "Collecting"} =>
           /\ calls = <<>>
           /\ fed = NothingFed => builders = <<>>
    /\ (PastStream /\ Len(calls) > 0) =>
           /\ DOMAIN fed = 0..(Len(calls) - 1)
           /\ \A i \in 1..Len(calls) :
                  /\ calls[i].call_id = fed[i - 1].call_id
                  /\ calls[i].name = fed[i - 1].name
                  /\ calls[i].arguments = fed[i - 1].arguments
           /\ messages[AnnouncedAt].tool_calls =
                  [i \in 1..Len(calls) |->
                      generate_tool_call([call_id   |-> fed[i - 1].call_id,
                                          name      |-> fed[i - 1].name,
                                          arguments |-> fed[i - 1].arguments])]

\* A later round dispatches its own call, after an earlier round of the same
\* generate() call announced a call with another call_id.
C15_Witness ==
    /\ pc = "Dispatching"
    /\ Len(calls) = 1
    /\ \E i \in 1..Len(request.messages) :
           /\ IsAnnouncement(messages[i])
           /\ messages[i].tool_calls[1].id # calls[1].call_id

\* C16: during a generate() call the log is append-only: in every step the
\* log before the step is a prefix of the log after it, so no message is
\* removed, replaced or reordered.
C16_LogAppendOnly ==
    [][/\ Len(messages) <= Len(messages')
       /\ SubSeq(messages', 1, Len(messages)) = messages]_vars

\* A round appended an assistant text message, an announcing message and the
\* result of its call to the log it was sent with.
C16_Witness ==
    /\ pc = "Sending"
    /\ request.sent
    /\ Len(messages) = Len(request.messages) + 3
    /\ SubSeq(messages, 1, Len(request.messages)) = <<SystemMessage(Instructions), UserMessage(Question)>>
    /\ messages[Len(messages)].role = "tool"

\* C17: while a round streams the log is not modified: the round's appends
\* come only after the stream is exhausted, so while the round streams, when
\* the caller stops consuming mid-stream and when the stream fails, the log
\* is exactly the log the round's request was sent with, with no partial
\* assistant message, whatever text was already yielded.
C17_LogUntouchedWhileStreaming ==
    (\/ pc \in {"Streaming", "Yielded", "Collecting", "Abandoned"}
     \/ pc = "Failed" /\ failure \in {"APIError", "IndexError"})
        => /\ request.sent
           /\ as_chat_messages(messages) = request.messages
           /\ Len(messages) = Len(request.messages)

\* The caller stopped consuming after a second text fragment of the round
\* was yielded; the first one was already accumulated.
C17_Witness ==
    /\ pc = "Abandoned"
    /\ Len(yielded) - outBase = 2
    /\ assistant_response # <<>>
    /\ Len(messages) = 2

\* The stream failed after text of the round was yielded and accumulated.
C17_WitnessStreamFailed ==
    /\ pc = "Failed"
    /\ failure = "APIError"
    /\ assistant_response # <<>>
    /\ Len(yielded) > outBase

====
